---- MODULE Spec2Model ----
(***************************************************************************)
(* Model of pimotors' motorset (src/motorset.py): the ordered registry of  *)
(* named motor units, the shared-service cache (needservice), the mlist    *)
(* dispatch (_listcall / _delist), stopMotor, close, ticker and odef.      *)
(*                                                                         *)
(* The motor unit class (dcmotorbasic.motor) and logger.makeClassInstance  *)
(* are not part of src/; they are modelled from the specification          *)
(* (sections 4.6 and 6) and kept apart in the operators MakeUnit,          *)
(* UnitCall, UnitStop, UnitClose, UnitTicker, UnitOdef, makeClassInstance. *)
(***************************************************************************)
EXTENDS Integers, Sequences, FiniteSets, TLC

\* ------------------------------------------------------------------------
\* Bounds of the model
MaxSpecs == 2      \* longest motordefs list given to the constructor
MaxSel   == 2      \* longest mlist list selector

\* ------------------------------------------------------------------------
\* Values
NoneArg == 0 - 1                       \* Python None as an argument / result
MotorNames == {"left", "right"}        \* names used in motor definitions
SelNames == MotorNames \cup {"bogus"}  \* names a caller may put in mlist
MotorClass == "dcmotorbasic.motor"
KnownClasses == {MotorClass, "quadmon.monitor", "svc.a", "svc.b"}
ServiceKeys == {"pigpio", "i2c"}
ServiceClasses == {"svc.a", "svc.b", "svc.missing"}

\* One motor definition dict (config_adafruit_dc_sm_hat.py): the keys the
\* motorset reads are 'name' and 'rotationsense'['pins']; className selects
\* the class makeClassInstance builds; feedback says whether the definition
\* configures a feedback controller.  pins is the tuple of sensing pins of
\* 'rotationsense'; <<>> stands for a definition with no 'rotationsense' (or
\* no 'pins') entry.
PlainDefs ==
  [name : MotorNames, className : {MotorClass}, pins : {<<>>}, feedback : {FALSE}]

\* Definitions with and without a feedback controller.
FeedbackDefs ==
  [name : MotorNames, className : {MotorClass}, pins : {<<>>}, feedback : BOOLEAN]

\* Definitions as the constructor may meet them: a class that exists or
\* not, a rotationsense with one, two or three pins or none.
PinSets == {<<>>, <<17>>, <<17, 18>>, <<22, 23>>, <<22, 23, 24>>}
CtorDefs ==
  [name : MotorNames, className : {MotorClass, "nosuch.motor"}, pins : PinSets,
   feedback : {FALSE}]

\* The quadmonitor parameter: None (given = FALSE) or a dict with a className.
NoQuadMonitor == [given |-> FALSE, className |-> ""]
QuadMonitors == {NoQuadMonitor, [given |-> TRUE, className |-> "quadmon.monitor"]}

RECURSIVE SeqsUpTo(_, _)
SeqsUpTo(S, n) ==
  IF n = 0 THEN {<<>>}
  ELSE LET shorter == SeqsUpTo(S, n - 1)
       IN shorter \cup {Append(s, x) : s \in {t \in shorter : Len(t) = n - 1}, x \in S}

\* The mlist parameter: None, a string, or a list of names.
Selectors ==
  {[kind |-> "all", name |-> "", names |-> <<>>]}
  \cup {[kind |-> "str", name |-> n, names |-> <<>>] : n \in SelNames}
  \cup {[kind |-> "list", name |-> "", names |-> s] : s \in SeqsUpTo(SelNames, MaxSel)}

\* ------------------------------------------------------------------------
VARIABLES
  pc,              \* "new" before the constructor ran, then "ready" | "failed"
  motordefs,       \* constructor argument motordefs (gone once it returned)
  quadmonitor,     \* constructor argument quadmonitor (gone once it returned)
  motors,          \* self.motors: ordered mapping name -> motor unit
  quadmon,         \* self.quadmon
  sharedServices,  \* self.sharedServices: mapping key -> service instance
  built,           \* every service instance makeClassInstance ever built
  atexitReg,       \* close was registered with atexit
  closing,         \* the close() call in flight: [pc, calls, pre]
  closed,          \* some close() call has completed
  gone,            \* names of the motors close() has discarded so far
  last,            \* the call that just returned and what it returned
  calls,           \* unit methods invoked by the call that just returned
  pre              \* the motorset as it was when that call began

vars == <<pc, motordefs, quadmonitor, motors, quadmon, sharedServices,
          built, atexitReg, closing, closed, gone, last, calls, pre>>

\* ------------------------------------------------------------------------
\* Python dicts that remember insertion order, as sequences of [key, val]
DictHas(d, k) == \E i \in 1..Len(d) : d[i].key = k
DictIndex(d, k) == CHOOSE i \in 1..Len(d) : d[i].key = k
DictGet(d, k) == d[DictIndex(d, k)].val
DictSet(d, k, v) ==
  IF DictHas(d, k)
  THEN [i \in 1..Len(d) |-> IF d[i].key = k THEN [key |-> k, val |-> v] ELSE d[i]]
  ELSE Append(d, [key |-> k, val |-> v])
DictKeys(d) == [i \in 1..Len(d) |-> d[i].key]
DictValues(d) == [i \in 1..Len(d) |-> d[i].val]

\* ------------------------------------------------------------------------
\* Collaborators outside src/, modelled from the specification

\* logger.makeClassInstance: builds the class a className string names;
\* an unknown class reference is an error.
makeClassInstance(className) == className \in KnownClasses

DutyCycles == {0, 1}     \* duty cycles the drive accepts

\* A freshly built motor unit (Ready, nothing commanded).
MakeUnit(mdef) ==
  [mdef |-> mdef, name |-> mdef.name, dc |-> 0, inv |-> 0, freq |-> 0,
   target |-> 0, fbparam |-> 0, closed |-> FALSE]

\* The speed mapper: requested speed -> duty cycle (full speed, full duty).
SpeedMap(speed) == IF speed > 0 THEN 1 ELSE 0

Reply(u, status, val) == [u |-> u, status |-> status, val |-> val]

\* One per-motor method called with one argument (NoneArg: query only).
UnitCall(u, method, arg) ==
  IF u.closed THEN Reply(u, "ClosedError", NoneArg)
  ELSE CASE method = "lastPosition" -> Reply(u, "ok", 0)
         [] method = "lastRPM"      -> Reply(u, "ok", 0)
         [] method = "speedLimits"  -> Reply(u, "ok", 0)
         [] method = "invert" ->
              IF arg = NoneArg THEN Reply(u, "ok", u.inv)
              ELSE Reply([u EXCEPT !.inv = arg], "ok", arg)
         [] method = "frequency" ->
              IF arg = NoneArg THEN Reply(u, "ok", u.freq)
              ELSE Reply([u EXCEPT !.freq = arg], "ok", arg)
         [] method = "DC" ->
              IF arg \notin DutyCycles THEN Reply(u, "HardwareCommandError", NoneArg)
              ELSE Reply([u EXCEPT !.dc = arg], "ok", arg)
         [] method = "speed" ->
              IF arg = NoneArg THEN Reply(u, "ok", u.dc)
              ELSE Reply([u EXCEPT !.dc = SpeedMap(arg)], "ok", arg)
         [] method = "targetSpeed" ->
              IF ~u.mdef.feedback THEN Reply(u, "NoFeedbackError", NoneArg)
              ELSE IF arg = NoneArg THEN Reply(u, "ok", u.target)
              ELSE Reply([u EXCEPT !.target = arg], "ok", arg)
         [] method = "feedbackParam" ->
              IF ~u.mdef.feedback THEN Reply(u, "NoFeedbackError", NoneArg)
              ELSE IF arg = NoneArg THEN Reply(u, "ok", u.fbparam)
              ELSE Reply([u EXCEPT !.fbparam = arg], "ok", arg)

\* stop(): commands zero drive output at once; safe in every state.
UnitStop(u) == [u EXCEPT !.dc = 0, !.target = 0]

\* close(): stops the unit and makes it Closed, which is terminal.
UnitClose(u) == [UnitStop(u) EXCEPT !.closed = TRUE]

\* ticker(): one feedback step; only a unit with a feedback controller and
\* a target speed set changes its duty cycle (measured RPM is below target).
UnitTicker(u) ==
  IF u.mdef.feedback /\ u.target # 0 /\ ~u.closed THEN [u EXCEPT !.dc = 1] ELSE u

\* odef(): the definition the unit can be rebuilt from.
UnitOdef(u) == u.mdef

\* Idle: zero drive output and no target speed.
UnitIdle(u) == u.dc = 0 /\ u.target = 0

\* ------------------------------------------------------------------------
\* Records of what a call did

\* One invocation of a unit's method: the unit (by name), the method, and
\* whether the unit was already Closed when it was invoked.
Call(u, method) == [unit |-> u.name, method |-> method, closed |-> u.closed]

NoQuadmon == [present |-> FALSE, motorquads |-> <<>>]

Snapshot == [motors |-> motors, sharedServices |-> sharedServices,
             quadmon |-> quadmon, closed |-> closed]

NoSnapshot == [motors |-> <<>>, sharedServices |-> <<>>, quadmon |-> NoQuadmon,
               closed |-> FALSE]

AllSel == [kind |-> "all", name |-> "", names |-> <<>>]

Done(op, method, arg, sel, status, shape, value, defs) ==
  [op |-> op, method |-> method, arg |-> arg, sel |-> sel, status |-> status,
   shape |-> shape, value |-> value, defs |-> defs]

NoCall == Done("none", "", NoneArg, AllSel, "ok", "none", <<>>, <<>>)

IdleClose == [pc |-> "idle", calls |-> <<>>, pre |-> NoSnapshot]

\* Before the constructor runs, with its arguments chosen.
InitWith(defLists, monitors) ==
  /\ pc = "new"
  /\ motordefs \in defLists
  /\ quadmonitor \in monitors
  /\ motors = <<>>
  /\ quadmon = NoQuadmon
  /\ sharedServices = <<>>
  /\ built = <<>>
  /\ atexitReg = FALSE
  /\ closing = IdleClose
  /\ closed = FALSE
  /\ gone = {}
  /\ last = NoCall
  /\ calls = <<>>
  /\ pre = NoSnapshot

\* The motor sets of the repository's configuration files: plain DC motors
\* (className, name, mdrive, logtypes), no shared quadrature monitor.
Init == InitWith(SeqsUpTo(PlainDefs, MaxSpecs), {NoQuadMonitor})

\* ------------------------------------------------------------------------
\* motorset.__init__

\* Variant of TwoPins: any rotationsense with pins counts.
SomePins(mdef) == Len(mdef.pins) >= 1

\* The definitions the shared monitor is to watch: those whose
\* rotationsense has exactly two pins.
TwoPins(mdef) == Len(mdef.pins) = 2

\* The motorquads dict: name -> pins of every definition with a two-pin
\* rotationsense.
RECURSIVE QuadPins(_, _)
QuadPins(defs, qd) ==
  IF defs = <<>> THEN qd
  ELSE LET mdef == Head(defs)
       IN QuadPins(Tail(defs),
                   IF TwoPins(mdef) THEN DictSet(qd, mdef.name, mdef.pins) ELSE qd)

\* The quadmon part of the constructor: [status, quadmon].
BuildQuadmon(defs, qm) ==
  IF ~qm.given THEN [status |-> "ok", quadmon |-> NoQuadmon]
  ELSE LET qd == QuadPins(defs, <<>>)
       IN IF qd = <<>> THEN [status |-> "ok", quadmon |-> NoQuadmon]
          ELSE IF makeClassInstance(qm.className)
               THEN [status |-> "ok", quadmon |-> [present |-> TRUE, motorquads |-> qd]]
               ELSE [status |-> "ConfigurationError", quadmon |-> NoQuadmon]

\* Variant of StoreMotor: the new unit goes to the front of the mapping.
StoreMotorFirst(ms, name, unit) ==
  IF DictHas(ms, name) THEN DictSet(ms, name, unit)
  ELSE <<[key |-> name, val |-> unit]>> \o ms

\* self.motors[mdef['name']] = the new unit
StoreMotor(ms, name, unit) == DictSet(ms, name, unit)

\* The loop that builds one unit per definition: [status, motors, calls];
\* calls lists the units built, in order.
RECURSIVE BuildMotors(_, _)
BuildMotors(defs, st) ==
  IF defs = <<>> THEN st
  ELSE LET mdef == Head(defs)
       IN IF ~makeClassInstance(mdef.className)
          THEN [st EXCEPT !.status = "ConfigurationError"]
          ELSE LET unit == MakeUnit(mdef)
               IN BuildMotors(Tail(defs),
                              [st EXCEPT !.motors = StoreMotor(@, mdef.name, unit),
                                         !.calls = Append(@, Call(unit, "init"))])

\* Variant of RegisterAtExit: the constructor registers nothing.
RegisterNothing(status) == FALSE

\* atexit.register(self.close) is the last statement of __init__: it is
\* reached only when nothing before it raised.
RegisterAtExit(status) == status = "ok"

Construct ==
  /\ pc = "new"
  /\ LET q == BuildQuadmon(motordefs, quadmonitor)
         b == IF q.status = "ok"
              THEN BuildMotors(motordefs, [status |-> "ok", motors |-> <<>>, calls |-> <<>>])
              ELSE [status |-> q.status, motors |-> <<>>, calls |-> <<>>]
     IN /\ quadmon' = q.quadmon
        /\ motors' = b.motors
        /\ calls' = b.calls
        /\ pc' = IF b.status = "ok" THEN "ready" ELSE "failed"
        /\ atexitReg' = RegisterAtExit(b.status)
        /\ last' = Done("init", "", NoneArg, AllSel, b.status, "none", <<>>, <<>>)
  /\ sharedServices' = <<>>
  /\ pre' = Snapshot
  /\ UNCHANGED <<motordefs, quadmonitor, built, closing, closed, gone>>

\* The motors a caller can reach: those of a motorset it was handed.
Reachable == IF pc = "ready" THEN motors ELSE <<>>

\* ------------------------------------------------------------------------
\* _listcall and _delist

Outcome(ms, cs, status, value) ==
  [motors |-> ms, calls |-> cs, status |-> status, value |-> value]

\* getattr(m, method)(arg) on the unit at position i of the mapping, and
\* the result stored under key: the next state of the comprehension, or the
\* state in which it ended because the method raised.
CallAt(i, key, method, arg, st) ==
  LET u == st.motors[i].val
      r == UnitCall(u, method, arg)
      cs == Append(st.calls, Call(u, method))
      ms == [st.motors EXCEPT ![i].val = r.u]
  IN IF r.status # "ok" THEN Outcome(ms, cs, r.status, <<>>)
     ELSE Outcome(ms, cs, "ok", DictSet(st.value, key, r.val))

\* The dict comprehension of _listcall over self.motors.values(), from
\* position i on: call the method on each unit in turn and store the result
\* under the unit's name.
RECURSIVE CallEach(_, _, _, _)
CallEach(i, method, arg, st) ==
  IF i > Len(st.motors) \/ st.status # "ok" THEN st
  ELSE CallEach(i + 1, method, arg, CallAt(i, st.motors[i].val.name, method, arg, st))

\* The comprehension over the names the caller gave: look each name up in
\* self.motors, call the method, store the result under the name.  A failed
\* lookup ends the comprehension like a raising method does.
RECURSIVE CallNamed(_, _, _, _)
CallNamed(names, method, arg, st) ==
  IF names = <<>> \/ st.status # "ok" THEN st
  ELSE LET n == Head(names)
       IN IF ~DictHas(st.motors, n)
          THEN Outcome(st.motors, st.calls, "KeyError", <<>>)
          ELSE CallNamed(Tail(names), method, arg,
                         CallAt(DictIndex(st.motors, n), n, method, arg, st))

\* Variant of listcall: a name is served like no selector.
listcallNameAsAll(sel, method, arg) ==
  LET st0 == Outcome(motors, <<>>, "ok", <<>>)
  IN CASE sel.kind = "all" -> CallEach(1, method, arg, st0)
       [] sel.kind = "str" -> CallEach(1, method, arg, st0)
       [] sel.kind = "list" -> CallNamed(sel.names, method, arg, st0)

\* Variant of listcall: a list selector is served like no selector.
listcallListAsAll(sel, method, arg) ==
  LET st0 == Outcome(motors, <<>>, "ok", <<>>)
  IN CASE sel.kind = "all" -> CallEach(1, method, arg, st0)
       [] sel.kind = "str" -> CallNamed(<<sel.name>>, method, arg, st0)
       [] sel.kind = "list" -> CallEach(1, method, arg, st0)

\* _listcall(units, method, arg)
listcall(sel, method, arg) ==
  LET st0 == Outcome(motors, <<>>, "ok", <<>>)
  IN CASE sel.kind = "all" -> CallEach(1, method, arg, st0)
       [] sel.kind = "str" -> CallNamed(<<sel.name>>, method, arg, st0)
       [] sel.kind = "list" -> CallNamed(sel.names, method, arg, st0)

\* The shape of what _listcall returns: the unit's result for a string
\* selector, a dict otherwise.
ShapeOf(sel, status) ==
  IF status # "ok" THEN "none" ELSE IF sel.kind = "str" THEN "scalar" ELSE "mapping"

\* u.stop() for the units at the positions idxs, in order
RECURSIVE StopEach(_, _)
StopEach(idxs, st) ==
  IF idxs = <<>> THEN st
  ELSE LET i == Head(idxs)
       IN StopEach(Tail(idxs),
                   [st EXCEPT !.motors[i].val = UnitStop(@),
                              !.calls = Append(@, Call(st.motors[i].val, "stop"))])

AllPositions(ms) == [i \in 1..Len(ms) |-> i]

\* Variant of StopAllOnBadList: the list branch empties the mapping.
DropAllOnBadList(st) == [st EXCEPT !.motors = <<>>]

\* Variant of StopAllOnBadList: the list branch raises without stopping.
StopNoneOnBadList(st) == st

\* What _delist does when a list holds an unknown name, before it raises:
\* self.stopMotor(), which stops every motor of the set.
StopAllOnBadList(st) == StopEach(AllPositions(st.motors), st)

\* Variant of StopAllOnBadName: the string branch stops every motor too.
StopEveryOnBadName(st) == StopEach(AllPositions(st.motors), st)

\* What _delist does when a string names no motor, before it raises.
StopAllOnBadName(st) == st

\* _delist(units): [status, idxs, st]; idxs are the positions of the units
\* it returns, st carries what the validation itself did to the motors.
delist(sel, st) ==
  CASE sel.kind = "all" ->
         [status |-> "ok", idxs |-> AllPositions(st.motors), st |-> st]
    [] sel.kind = "str" ->
         IF DictHas(st.motors, sel.name)
         THEN [status |-> "ok", idxs |-> <<DictIndex(st.motors, sel.name)>>, st |-> st]
         ELSE [status |-> "ValueError", idxs |-> <<>>, st |-> StopAllOnBadName(st)]
    [] sel.kind = "list" ->
         IF \E i \in 1..Len(sel.names) : ~DictHas(st.motors, sel.names[i])
         THEN [status |-> "ValueError", idxs |-> <<>>, st |-> StopAllOnBadList(st)]
         ELSE [status |-> "ok",
               idxs |-> [i \in 1..Len(sel.names) |-> DictIndex(st.motors, sel.names[i])],
               st |-> st]

\* ------------------------------------------------------------------------
\* The operations of a constructed motorset

\* A caller holds the motorset, the previous call has returned and its
\* result was taken.
CanCall == pc = "ready" /\ last.op = "none"

Dispatch(op, method, arg, sel) ==
  /\ CanCall
  /\ LET r == listcall(sel, method, arg)
     IN /\ motors' = r.motors
        /\ calls' = r.calls
        /\ last' = Done(op, method, arg, sel, r.status, ShapeOf(sel, r.status),
                        r.value, <<>>)
  /\ pre' = Snapshot
  /\ UNCHANGED <<pc, motordefs, quadmonitor, quadmon, sharedServices,
                 built, atexitReg, closing, closed, gone>>

SetArgs == {1}               \* a value to set
GetSetArgs == {NoneArg, 1}   \* None leaves the setting alone
DCArgs == {1, 2}             \* 2 is outside the range the drive accepts

lastMotorPosition(mlist) == Dispatch("lastMotorPosition", "lastPosition", NoneArg, mlist)
lastMotorRPM(mlist) == Dispatch("lastMotorRPM", "lastRPM", NoneArg, mlist)
motorInvert(inv, mlist) == Dispatch("motorInvert", "invert", inv, mlist)
motorFrequency(f, mlist) == Dispatch("motorFrequency", "frequency", f, mlist)
motorDC(dutycycle, mlist) == Dispatch("motorDC", "DC", dutycycle, mlist)
motorSpeedLimits(mlist) == Dispatch("motorSpeedLimits", "speedLimits", NoneArg, mlist)
motorSpeed(speed, mlist) == Dispatch("motorSpeed", "speed", speed, mlist)
motorFeedbackParam(paramdetails, mlist) ==
  Dispatch("motorFeedbackParam", "feedbackParam", paramdetails, mlist)
motorTargetSpeed(tspeed, mlist) == Dispatch("motorTargetSpeed", "targetSpeed", tspeed, mlist)

stopMotor(mlist) ==
  /\ CanCall
  /\ LET d == delist(mlist, Outcome(motors, <<>>, "ok", <<>>))
         r == IF d.status = "ok" THEN StopEach(d.idxs, d.st) ELSE d.st
     IN /\ motors' = r.motors
        /\ calls' = r.calls
        /\ last' = Done("stopMotor", "stop", NoneArg, mlist, d.status, "none", <<>>, <<>>)
  /\ pre' = Snapshot
  /\ UNCHANGED <<pc, motordefs, quadmonitor, quadmon, sharedServices,
                 built, atexitReg, closing, closed, gone>>

\* Variant of CloseEach: the first unit of the list is skipped.
RECURSIVE CloseRest(_, _)
CloseRest(idxs, st) ==
  IF Len(idxs) <= 1 THEN st
  ELSE LET i == idxs[Len(idxs)]
       IN CloseRest(SubSeq(idxs, 1, Len(idxs) - 1),
                    [st EXCEPT !.motors[i].val = UnitClose(@),
                               !.calls = <<Call(st.motors[i].val, "close")>> \o @])

\* m.close() for the units at the positions idxs, in order
RECURSIVE CloseEach(_, _)
CloseEach(idxs, st) ==
  IF idxs = <<>> THEN st
  ELSE LET i == Head(idxs)
       IN CloseEach(Tail(idxs),
                    [st EXCEPT !.motors[i].val = UnitClose(@),
                               !.calls = Append(@, Call(st.motors[i].val, "close"))])

\* close(), up to time.sleep(.5): every unit _delist(None) returns is closed
closeUnits ==
  /\ CanCall
  /\ closing.pc = "idle"
  /\ LET d == delist(AllSel, Outcome(motors, <<>>, "ok", <<>>))
         r == CloseEach(d.idxs, d.st)
     IN /\ motors' = r.motors
        /\ closing' = [pc |-> "sleep", calls |-> r.calls, pre |-> Snapshot]
  /\ UNCHANGED <<pc, motordefs, quadmonitor, quadmon, sharedServices,
                 built, atexitReg, closed, gone, last, calls, pre>>

\* Variant of Discarded: close() keeps the mapping.
DiscardNothing(s) == s

\* What close() leaves of self.motors, self.sharedServices and self.quadmon
\* after the sleep.
Discarded(s) == [s EXCEPT !.motors = <<>>]

\* close(), after the sleep: self.motors = {}
closeDiscard ==
  /\ closing.pc = "sleep"
  /\ last.op = "none"
  /\ LET s == Discarded(Snapshot)
     IN /\ motors' = s.motors
        /\ sharedServices' = s.sharedServices
        /\ quadmon' = s.quadmon
  /\ closed' = TRUE
  /\ gone' = gone \cup {motors[i].key : i \in 1..Len(motors)}
  /\ last' = Done("close", "close", NoneArg, AllSel, "ok", "none", <<>>, <<>>)
  /\ calls' = closing.calls
  /\ pre' = closing.pre
  /\ closing' = IdleClose
  /\ UNCHANGED <<pc, motordefs, quadmonitor, built, atexitReg>>

\* Variant of TickEach: only the unit at position i is stepped.
TickFirst(i, st) ==
  IF i > Len(st.motors) THEN st
  ELSE [st EXCEPT !.motors[i].val = UnitTicker(@),
                  !.calls = Append(@, Call(st.motors[i].val, "ticker"))]

\* for m in self.motors.values(): m.ticker(), from position i on
RECURSIVE TickEach(_, _)
TickEach(i, st) ==
  IF i > Len(st.motors) THEN st
  ELSE TickEach(i + 1,
                [st EXCEPT !.motors[i].val = UnitTicker(@),
                           !.calls = Append(@, Call(st.motors[i].val, "ticker"))])

ticker ==
  /\ CanCall
  /\ LET r == TickEach(1, Outcome(motors, <<>>, "ok", <<>>))
     IN /\ motors' = r.motors
        /\ calls' = r.calls
  /\ last' = Done("ticker", "ticker", NoneArg, AllSel, "ok", "none", <<>>, <<>>)
  /\ pre' = Snapshot
  /\ UNCHANGED <<pc, motordefs, quadmonitor, quadmon, sharedServices,
                 built, atexitReg, closing, closed, gone>>

odef ==
  /\ CanCall
  /\ last' = Done("odef", "odef", NoneArg, AllSel, "ok", "none", <<>>,
                  [i \in 1..Len(motors) |-> UnitOdef(motors[i].val)])
  /\ calls' = [i \in 1..Len(motors) |-> Call(motors[i].val, "odef")]
  /\ pre' = Snapshot
  /\ UNCHANGED <<pc, motordefs, quadmonitor, motors, quadmon, sharedServices,
                 built, atexitReg, closing, closed, gone>>

\* motorset(**ms.odef()): the dict odef() returned has the one entry
\* 'motordefs', so the constructor runs with its default quadmonitor=None.
Reconstructed(defs) ==
  [quadmon |-> BuildQuadmon(defs, NoQuadMonitor),
   motors |-> BuildMotors(defs, [status |-> "ok", motors |-> <<>>, calls |-> <<>>])]

ServiceArgs == {1, 2}

\* Variant of ServiceMissing: the cache is never consulted.
ServiceAlwaysMissing(services, sname) == TRUE

\* The cache test of needservice: is a new instance to be built for sname?
ServiceMissing(services, sname) == ~DictHas(services, sname)

\* The call record of needservice: method is sname, sel.name is className,
\* arg is servargs.
ServiceCall(sname, className, servargs, status, shape, value) ==
  Done("needservice", sname, servargs,
       [kind |-> "class", name |-> className, names |-> <<>>], status, shape, value, <<>>)

needservice(sname, className, servargs) ==
  /\ CanCall
  /\ IF ServiceMissing(sharedServices, sname)
     THEN IF makeClassInstance(className)
          THEN LET serv == [id |-> Len(built) + 1, sname |-> sname,
                            className |-> className, servargs |-> servargs]
               IN /\ built' = Append(built, serv)
                  /\ sharedServices' = DictSet(sharedServices, sname, serv)
                  /\ last' = ServiceCall(sname, className, servargs, "ok", "scalar",
                                         <<[key |-> sname, val |-> serv.id]>>)
          ELSE /\ UNCHANGED <<built, sharedServices>>
               /\ last' = ServiceCall(sname, className, servargs,
                                      "ConfigurationError", "none", <<>>)
     ELSE /\ UNCHANGED <<built, sharedServices>>
          /\ last' = ServiceCall(sname, className, servargs, "ok", "scalar",
                                 <<[key |-> sname,
                                    val |-> DictGet(sharedServices, sname).id]>>)
  /\ calls' = <<>>
  /\ pre' = Snapshot
  /\ UNCHANGED <<pc, motordefs, quadmonitor, motors, quadmon, atexitReg,
                 closing, closed, gone>>

\* The interpreter exits with the motorset alive and no call in progress:
\* the functions registered with atexit run, here close() as a whole (the
\* exit waits out the sleep).
atexit ==
  /\ CanCall
  /\ closing.pc = "idle"
  /\ LET d == delist(AllSel, Outcome(motors, <<>>, "ok", <<>>))
         r == IF atexitReg THEN CloseEach(d.idxs, d.st) ELSE d.st
         s == IF atexitReg THEN Discarded([Snapshot EXCEPT !.motors = r.motors])
              ELSE Snapshot
     IN /\ motors' = s.motors
        /\ sharedServices' = s.sharedServices
        /\ quadmon' = s.quadmon
        /\ calls' = r.calls
  /\ closed' = (closed \/ atexitReg)
  /\ gone' = IF atexitReg THEN gone \cup {motors[i].key : i \in 1..Len(motors)} ELSE gone
  /\ pc' = "exited"
  /\ last' = Done("atexit", "close", NoneArg, AllSel, "ok", "none", <<>>, <<>>)
  /\ pre' = Snapshot
  /\ UNCHANGED <<motordefs, quadmonitor, built, atexitReg, closing>>

\* The caller takes the result of the call that returned; the arguments of
\* a constructor call go out of scope.
Returned ==
  /\ last.op # "none"
  /\ last' = NoCall
  /\ calls' = <<>>
  /\ pre' = NoSnapshot
  /\ motordefs' = <<>>
  /\ quadmonitor' = NoQuadMonitor
  /\ UNCHANGED <<pc, motors, quadmon, sharedServices, built, atexitReg, closing, closed, gone>>

Next ==
  \/ Construct
  \/ Returned
  \/ \E mlist \in Selectors : lastMotorPosition(mlist)
  \/ \E mlist \in Selectors : lastMotorRPM(mlist)
  \/ \E mlist \in Selectors, inv \in SetArgs : motorInvert(inv, mlist)
  \/ \E mlist \in Selectors, f \in GetSetArgs : motorFrequency(f, mlist)
  \/ \E mlist \in Selectors, dutycycle \in DCArgs : motorDC(dutycycle, mlist)
  \/ \E mlist \in Selectors : motorSpeedLimits(mlist)
  \/ \E mlist \in Selectors, speed \in SetArgs : motorSpeed(speed, mlist)
  \/ \E mlist \in Selectors, p \in SetArgs : motorFeedbackParam(p, mlist)
  \/ \E mlist \in Selectors, tspeed \in SetArgs : motorTargetSpeed(tspeed, mlist)
  \/ \E mlist \in Selectors : stopMotor(mlist)
  \/ closeUnits
  \/ closeDiscard
  \/ ticker
  \/ odef
  \/ atexit

\* A constructed motorset under every sequence of calls of its motor
\* operations.
Spec == Init /\ [][Next]_vars

\* The shared-service cache under every sequence of needservice, stopMotor
\* and close calls.
NextBroker ==
  \/ Construct
  \/ Returned
  \/ \E sname \in ServiceKeys, className \in ServiceClasses, servargs \in ServiceArgs :
       needservice(sname, className, servargs)
  \/ \E mlist \in Selectors : stopMotor(mlist)
  \/ closeUnits
  \/ closeDiscard

SpecBroker == Init /\ [][NextBroker]_vars

\* Motor sets whose units have a feedback controller or not, under the
\* calls that drive them: duty cycle, target speed, the feedback tick, stop
\* and close.
InitFeedback == InitWith(SeqsUpTo(FeedbackDefs, MaxSpecs), {NoQuadMonitor})

NextFeedback ==
  \/ Construct
  \/ Returned
  \/ \E mlist \in Selectors, dutycycle \in DCArgs : motorDC(dutycycle, mlist)
  \/ \E mlist \in Selectors, tspeed \in SetArgs : motorTargetSpeed(tspeed, mlist)
  \/ \E mlist \in Selectors : stopMotor(mlist)
  \/ closeUnits
  \/ closeDiscard
  \/ ticker

SpecFeedback == InitFeedback /\ [][NextFeedback]_vars

\* The constructor under every list of definitions and either quadrature
\* monitor argument, followed by odef, close and exit.
InitCtor == InitWith(SeqsUpTo(CtorDefs, MaxSpecs), QuadMonitors)

NextCtor ==
  \/ Construct
  \/ Returned
  \/ odef
  \/ closeUnits
  \/ closeDiscard
  \/ atexit

SpecCtor == InitCtor /\ [][NextCtor]_vars

\* Every operation of the motorset together, needservice with one service.
NextAll ==
  \/ Next
  \/ needservice("pigpio", "svc.a", 1)

SpecAll == Init /\ [][NextAll]_vars

\* ------------------------------------------------------------------------
\* Properties

DispatchOps == {"lastMotorPosition", "lastMotorRPM", "motorInvert", "motorFrequency",
                "motorDC", "motorSpeedLimits", "motorSpeed", "motorFeedbackParam",
                "motorTargetSpeed"}
MutatingOps == {"motorDC", "motorInvert", "motorFrequency", "motorSpeed",
                "motorTargetSpeed", "motorFeedbackParam"}

\* The errors that report a name that is no motor of the set: _delist
\* raises ValueError, the lookups of _listcall raise KeyError.
UnknownMotorError == {"ValueError", "KeyError"}

UnknownAt(names, ms) == {i \in 1..Len(names) : ~DictHas(ms, names[i])}

\* Every motor of ms accepts the call (it would not raise on its own).
AcceptedByAll(ms, method, arg) ==
  \A i \in 1..Len(ms) : UnitCall(ms[i].val, method, arg).status = "ok"

\* The calls `method` on every unit of ms, once each, in iteration order.
OnEach(ms, method) == [i \in 1..Len(ms) |-> Call(ms[i].val, method)]

\* The last call was a mutating dispatch with a list holding exactly one
\* unknown name among known names, which every motor would accept.
BadListDispatch ==
  /\ last.op \in MutatingOps
  /\ last.arg # NoneArg
  /\ last.sel.kind = "list"
  /\ Cardinality(UnknownAt(last.sel.names, pre.motors)) = 1
  /\ Len(last.sel.names) >= 2
  /\ AcceptedByAll(pre.motors, last.method, last.arg)

\* C1: a mutating dispatch (other than stop) with a list selector holding
\* one unknown name among known names, at any position, fails with an
\* unknown-motor error and invokes the operation on none of the motors,
\* whose state is as before the call.
C1_BadListMutatesNothing ==
  BadListDispatch =>
    /\ last.status \in UnknownMotorError
    /\ calls = <<>>
    /\ motors = pre.motors

\* The last call was stopMotor with a list holding an unknown name.
BadListStop ==
  /\ last.op = "stopMotor"
  /\ last.sel.kind = "list"
  /\ UnknownAt(last.sel.names, pre.motors) # {}

\* C2: stopMotor with a list selector holding an unknown name reports an
\* unknown-motor error after stop() was invoked on every motor of the set,
\* named in the list or not, so that all motors end Idle.
C2_BadListStopsAll ==
  BadListStop =>
    /\ last.status \in UnknownMotorError
    /\ calls = OnEach(pre.motors, "stop")
    /\ DictKeys(motors) = DictKeys(pre.motors)
    /\ \A i \in 1..Len(motors) : UnitIdle(motors[i].val)

\* C2 witness: a running motor the bad list does not name was stopped.
C2_Witness ==
  /\ BadListStop
  /\ \E i \in 1..Len(pre.motors) :
       /\ pre.motors[i].val.dc = 1
       /\ \A j \in 1..Len(last.sel.names) : last.sel.names[j] # pre.motors[i].key

\* The last call was stopMotor with a string that names no motor.
BadNameStop ==
  /\ last.op = "stopMotor"
  /\ last.sel.kind = "str"
  /\ ~DictHas(pre.motors, last.sel.name)

\* C3 as stated: stopMotor with a single unknown name invokes stop() on
\* every known motor before it reports the unknown-motor error.
C3_BadNameStopsAll ==
  BadNameStop =>
    /\ last.status \in UnknownMotorError
    /\ calls = OnEach(pre.motors, "stop")

\* C3 as amended: stopMotor with a single unknown name reports the
\* unknown-motor error and invokes stop() on no motor; every motor keeps
\* the state it had, a running motor keeps running.
C3_BadNameStopsNone ==
  BadNameStop =>
    /\ last.status \in UnknownMotorError
    /\ calls = <<>>
    /\ motors = pre.motors

\* C3 witness: stopMotor("bogus") returned while a motor is running.
C3_Witness ==
  /\ BadNameStop
  /\ \E i \in 1..Len(motors) : motors[i].val.dc = 1

\* The service instances built so far under the key k.
BuiltFor(k) == {i \in 1..Len(built) : built[i].sname = k}

\* C4: needservice is first-writer-wins per key: at most one instance is
\* ever built for a key, the first call with a key builds and caches it,
\* and every later call with the key returns that instance, whatever class
\* name and arguments it passes, and builds nothing.
C4_FirstWriterWins ==
  /\ \A k \in ServiceKeys : Cardinality(BuiltFor(k)) <= 1
  /\ \A i \in 1..Len(built) :
       /\ DictHas(sharedServices, built[i].sname)
       /\ DictGet(sharedServices, built[i].sname) = built[i]
  /\ Len(sharedServices) = Len(built)
  /\ (last.op = "needservice" /\ DictHas(pre.sharedServices, last.method)) =>
       /\ last.status = "ok"
       /\ last.value = <<[key |-> last.method,
                          val |-> DictGet(pre.sharedServices, last.method).id]>>
       /\ sharedServices = pre.sharedServices
  /\ (last.op = "needservice" /\ ~DictHas(pre.sharedServices, last.method)
        /\ last.status = "ok") =>
       /\ DictGet(sharedServices, last.method) =
            [id |-> Len(built), sname |-> last.method,
             className |-> last.sel.name, servargs |-> last.arg]
       /\ last.value = <<[key |-> last.method, val |-> Len(built)]>>
       /\ Len(sharedServices) = Len(pre.sharedServices) + 1

\* C4 witness: a later call with a cached key passed another class, one
\* that does not even exist, and other arguments, and got the cached
\* instance.
C4_Witness ==
  /\ last.op = "needservice"
  /\ DictHas(pre.sharedServices, last.method)
  /\ DictGet(pre.sharedServices, last.method).className # last.sel.name
  /\ DictGet(pre.sharedServices, last.method).servargs # last.arg
  /\ ~makeClassInstance(last.sel.name)
  /\ last.status = "ok"

DistinctNames(defs) ==
  \A i, j \in 1..Len(defs) : i # j => defs[i].name # defs[j].name

\* C5: constructing a motorset from definitions two of which share a name
\* fails with a configuration error and leaves no motor reachable.
C5_DuplicateNameFails ==
  (last.op = "init" /\ ~DistinctNames(motordefs)) =>
    /\ last.status = "ConfigurationError"
    /\ Reachable = <<>>

\* The last call ran over the whole mapping in its iteration order.
OverAll ==
  \/ last.op \in {"ticker", "odef"}
  \/ last.op \in DispatchOps /\ last.sel.kind = "all" /\ last.status = "ok"

\* C6: for definitions with pairwise distinct names the constructor yields
\* a mapping with exactly one unit per definition, in the order of the
\* definitions; all-selector dispatch, ticker and odef run in that order.
C6_OnePerSpecInOrder ==
  /\ (last.op = "init" /\ DistinctNames(motordefs)) =>
       /\ last.status = "ok"
       /\ Len(motors) = Len(motordefs)
       /\ \A i \in 1..Len(motordefs) :
            /\ motors[i].key = motordefs[i].name
            /\ motors[i].val = MakeUnit(motordefs[i])
  /\ OverAll => [i \in 1..Len(calls) |-> calls[i].unit] = DictKeys(pre.motors)

\* C6 witness: two definitions, "right" given first.
C6_Witness ==
  /\ last.op = "init"
  /\ Len(motordefs) = 2
  /\ DistinctNames(motordefs)
  /\ motordefs[1].name = "right"
  /\ Len(motors) = 2

\* C7: after close() has completed, every all-selector dispatch returns an
\* empty mapping and invokes no unit, and every dispatch and stopMotor with
\* a single name fails with an unknown-motor error, for names that existed
\* before close too.
C7_ClosedSetIsEmpty ==
  pre.closed =>
    /\ (last.op \in DispatchOps /\ last.sel.kind = "all") =>
         /\ last.status = "ok"
         /\ last.shape = "mapping"
         /\ last.value = <<>>
         /\ calls = <<>>
    /\ (last.op = "stopMotor" /\ last.sel.kind = "all") =>
         /\ last.status = "ok"
         /\ calls = <<>>
    /\ (last.op \in DispatchOps \cup {"stopMotor"} /\ last.sel.kind = "str") =>
         /\ last.status \in UnknownMotorError
         /\ calls = <<>>

\* C7 witness: motorDC with the name of a motor that close() discarded.
C7_Witness ==
  /\ pre.closed
  /\ last.op = "motorDC"
  /\ last.sel.kind = "str"
  /\ last.sel.name \in gone
  /\ last.status \in UnknownMotorError

\* C8: a later close() on a closed motorset invokes nothing on any unit,
\* raises nothing and leaves the mapping and the rest of the motorset as
\* the first close() left them.
C8_CloseIdempotent ==
  (last.op = "close" /\ pre.closed) =>
    /\ last.status = "ok"
    /\ calls = <<>>
    /\ Snapshot = pre
    /\ motors = <<>>

\* C8 witness: a second close() of a motorset that had two motors.
C8_Witness ==
  /\ last.op = "close"
  /\ pre.closed
  /\ Cardinality(gone) = 2

\* C9: close() first closes every unit of the mapping, once each and in
\* iteration order, which stops it, then sleeps, and only then discards
\* the mapping: the mapping is never emptied while a unit of it is not
\* stopped.
C9_CloseOrder ==
  /\ closing.pc = "sleep" =>
       /\ closing.calls = OnEach(closing.pre.motors, "close")
       /\ DictKeys(motors) = DictKeys(closing.pre.motors)
       /\ \A i \in 1..Len(motors) : motors[i].val.closed /\ UnitIdle(motors[i].val)
  /\ last.op = "close" =>
       /\ calls = OnEach(pre.motors, "close")
       /\ motors = <<>>

\* C9 witness: close() of two motors, the second one running, is asleep.
C9_Witness ==
  /\ closing.pc = "sleep"
  /\ Len(closing.pre.motors) = 2
  /\ closing.pre.motors[2].val.dc = 1
  /\ Len(closing.calls) = 2

\* C10: when close() discards the mapping the shared services are released
\* too: after close() no cached service and no quadrature monitor is held.
C10_CloseReleasesServices ==
  last.op = "close" =>
    /\ sharedServices = <<>>
    /\ ~quadmon.present

\* The names a dispatch addresses, in dispatch order.
Addressed(sel, ms) ==
  CASE sel.kind = "all" -> DictKeys(ms)
    [] sel.kind = "str" -> <<sel.name>>
    [] sel.kind = "list" -> sel.names

AllKnown(names, ms) == \A i \in 1..Len(names) : DictHas(ms, names[i])

\* The errors a motor unit raises from one of its own operations.
PerMotorError == {"HardwareCommandError", "NoFeedbackError", "ClosedError"}

\* The last call was a dispatch over all motors or a list of known names
\* that ended with the error of one motor's operation.
BatchWithMotorError ==
  /\ last.op \in DispatchOps
  /\ last.sel.kind \in {"all", "list"}
  /\ AllKnown(Addressed(last.sel, pre.motors), pre.motors)
  /\ last.status \in PerMotorError

\* C11: in a dispatch over all motors or a list of motors, the error one
\* motor's operation raises leaves the siblings alone: every addressed
\* motor, those after the failing one included, has the operation invoked,
\* and the ones that accept it have it applied.
C11_MotorErrorIsolated ==
  BatchWithMotorError =>
    LET names == Addressed(last.sel, pre.motors)
    IN \A i \in 1..Len(names) :
         /\ \E j \in 1..Len(calls) : calls[j].unit = names[i]
         /\ LET r == UnitCall(DictGet(pre.motors, names[i]), last.method, last.arg)
            IN r.status = "ok" => DictGet(motors, names[i]) = r.u

\* The distinct names of a list, in the order of their first occurrence.
RECURSIVE FirstOccurrences(_)
FirstOccurrences(names) ==
  IF names = <<>> THEN <<>>
  ELSE LET t == FirstOccurrences(SubSeq(names, 1, Len(names) - 1))
           n == names[Len(names)]
       IN IF \E i \in 1..Len(t) : t[i] = n THEN t ELSE Append(t, n)

\* The last call was a dispatch that names known motors only and that
\* every motor accepts.
CleanDispatch ==
  /\ last.op \in DispatchOps
  /\ AllKnown(Addressed(last.sel, pre.motors), pre.motors)
  /\ AcceptedByAll(pre.motors, last.method, last.arg)

\* C12: a dispatch runs the operation on the motors the selector names and
\* shapes its result by the selector: with no selector once on every motor
\* in iteration order, returning a mapping with one entry per motor name;
\* with one known name on that motor, returning its result unwrapped; with
\* a list of known names on exactly those motors in the order given,
\* returning a mapping keyed by the given names.
C12_ResultBySelector ==
  CleanDispatch =>
    /\ last.status = "ok"
    /\ [j \in 1..Len(calls) |-> calls[j].unit] = Addressed(last.sel, pre.motors)
    /\ \A j \in 1..Len(calls) : calls[j].method = last.method
    /\ CASE last.sel.kind = "all" ->
              /\ last.shape = "mapping"
              /\ DictKeys(last.value) = DictKeys(pre.motors)
         [] last.sel.kind = "str" ->
              /\ last.shape = "scalar"
              /\ DictKeys(last.value) = <<last.sel.name>>
         [] last.sel.kind = "list" ->
              /\ last.shape = "mapping"
              /\ DictKeys(last.value) = FirstOccurrences(last.sel.names)
    /\ \A i \in 1..Len(last.value) :
         last.value[i].val =
           UnitCall(DictGet(pre.motors, last.value[i].key), last.method, last.arg).val

\* C12 witness: motorDC for the list right, left on the set left, right
\* returned a mapping with the keys right, left.
C12_Witness ==
  /\ last.op = "motorDC"
  /\ last.status = "ok"
  /\ last.sel.kind = "list"
  /\ last.sel.names = <<"right", "left">>
  /\ DictKeys(pre.motors) = <<"left", "right">>
  /\ DictKeys(last.value) = <<"right", "left">>

\* C13: a dispatch with a single name or a list of known names changes
\* the addressed motors only, every other motor of the set is as before:
\* motorDC for "left" sets the duty cycle of left and leaves right alone,
\* while motorDC with no selector sets every motor and returns one entry
\* per motor.
C13_OnlyAddressedChange ==
  /\ ( /\ last.op \in DispatchOps
       /\ last.sel.kind \in {"str", "list"}
       /\ AllKnown(Addressed(last.sel, pre.motors), pre.motors) ) =>
       LET names == Addressed(last.sel, pre.motors)
       IN /\ DictKeys(motors) = DictKeys(pre.motors)
          /\ \A i \in 1..Len(pre.motors) :
               (\A j \in 1..Len(names) : names[j] # pre.motors[i].key)
                 => motors[i] = pre.motors[i]
  /\ ( /\ last.op = "motorDC"
       /\ last.sel.kind = "str"
       /\ DictHas(pre.motors, last.sel.name)
       /\ UnitCall(DictGet(pre.motors, last.sel.name), "DC", last.arg).status = "ok" ) =>
       /\ DictGet(motors, last.sel.name).dc = last.arg
       /\ last.value = <<[key |-> last.sel.name, val |-> last.arg]>>
  /\ ( /\ last.op = "motorDC"
       /\ last.sel.kind = "all"
       /\ AcceptedByAll(pre.motors, "DC", last.arg) ) =>
       /\ \A i \in 1..Len(motors) : motors[i].val.dc = last.arg
       /\ last.value = [i \in 1..Len(pre.motors) |->
                          [key |-> pre.motors[i].key, val |-> last.arg]]

\* C13 witness: motorDC(1, "left") on the set left, right, both at rest,
\* set left to 1 and left right at rest.
C13_Witness ==
  /\ last.op = "motorDC"
  /\ last.sel.kind = "str"
  /\ last.sel.name = "left"
  /\ last.arg = 1
  /\ DictKeys(pre.motors) = <<"left", "right">>
  /\ pre.motors[1].val.dc = 0
  /\ pre.motors[2].val.dc = 0
  /\ motors[1].val.dc = 1
  /\ motors[2].val.dc = 0

\* C14: a call of ticker() invokes the feedback step once on every unit of
\* the mapping, in iteration order, so once on every unit that has a
\* feedback controller; a unit without a feedback controller or without a
\* target speed keeps its duty cycle; the mapping is as before; on a closed
\* set nothing is invoked.
C14_TickerStepsEach ==
  last.op = "ticker" =>
    /\ calls = OnEach(pre.motors, "ticker")
    /\ DictKeys(motors) = DictKeys(pre.motors)
    /\ \A i \in 1..Len(pre.motors) :
         (~pre.motors[i].val.mdef.feedback \/ pre.motors[i].val.target = 0)
           => motors[i].val.dc = pre.motors[i].val.dc
    /\ pre.closed => calls = <<>>

\* C14 witness: a tick of a set whose first motor has a feedback
\* controller and a target speed and whose second motor has none, running
\* at its own duty cycle: the first is driven, the second keeps its own.
C14_Witness ==
  /\ last.op = "ticker"
  /\ Len(pre.motors) = 2
  /\ pre.motors[1].val.mdef.feedback
  /\ pre.motors[1].val.target = 1
  /\ pre.motors[1].val.dc = 0
  /\ motors[1].val.dc = 1
  /\ ~pre.motors[2].val.mdef.feedback
  /\ pre.motors[2].val.dc = 1
  /\ motors[2].val.dc = 1
  /\ Len(calls) = 2

\* C15: when the construction of a unit fails, the whole construction
\* fails and nothing of it is left running: every unit built for an
\* earlier definition has been stopped and released, the shared monitor
\* too, and the caller reaches no motor.
C15_FailedConstructionCleansUp ==
  (last.op = "init" /\ last.status # "ok") =>
    /\ pc = "failed"
    /\ Reachable = <<>>
    /\ \A i \in 1..Len(motors) : motors[i].val.closed
    /\ ~quadmon.present

\* C16: odef() returns one definition per motor, in iteration order, from
\* which the set can be built again: the rebuilt set has the same motor
\* names in the same order and a shared monitor exactly if the original
\* has one.
C16_OdefRoundTrip ==
  (last.op = "odef" /\ ~pre.closed) =>
    LET again == Reconstructed(last.defs)
    IN /\ Len(last.defs) = Len(pre.motors)
       /\ \A i \in 1..Len(last.defs) : last.defs[i].name = pre.motors[i].key
       /\ again.motors.status = "ok"
       /\ DictKeys(again.motors.motors) = DictKeys(pre.motors)
       /\ again.quadmon.quadmon.present = pre.quadmon.present

\* C17: the constructor builds the one shared monitor exactly if a
\* quadmonitor configuration is given and some definition has a
\* rotationsense of exactly two pins, and hands it the mapping of exactly
\* those motors' names to their pins; otherwise there is no shared monitor.
C17_QuadmonIffTwoPins ==
  last.op = "init" =>
    LET two == {i \in 1..Len(motordefs) : Len(motordefs[i].pins) = 2}
        mq == quadmon.motorquads
    IN /\ quadmon.present <=> (quadmonitor.given /\ two # {})
       /\ ~quadmon.present => mq = <<>>
       /\ quadmon.present =>
            /\ {mq[k].key : k \in 1..Len(mq)} = {motordefs[i].name : i \in two}
            /\ Cardinality({mq[k].key : k \in 1..Len(mq)}) = Len(mq)
            /\ \A k \in 1..Len(mq) :
                 \E i \in two : /\ motordefs[i].name = mq[k].key
                                /\ motordefs[i].pins = mq[k].val

\* C17 witness: built with a monitor configuration for left with two
\* pins and right with three, the monitor watches left only.
C17_Witness ==
  /\ last.op = "init"
  /\ quadmonitor.given
  /\ Len(motordefs) = 2
  /\ motordefs[1].name = "left" /\ motordefs[1].pins = <<17, 18>>
  /\ motordefs[2].name = "right" /\ Len(motordefs[2].pins) = 3
  /\ quadmon.present
  /\ quadmon.motorquads = <<[key |-> "left", val |-> <<17, 18>>]>>

\* C18: every successfully constructed set has its close() registered for
\* the exit of the process: when the process exits without a close(), the
\* exit runs it and every motor of the set is closed, which stops it; when
\* close() has been called before, the run at exit invokes nothing and
\* changes nothing.
C18_ExitRunsClose ==
  /\ pc = "ready" => atexitReg
  /\ last.op = "atexit" =>
       /\ calls = OnEach(pre.motors, "close")
       /\ \A i \in 1..Len(pre.motors) : UnitIdle(UnitClose(pre.motors[i].val))
       /\ motors = <<>>
       /\ closed
       /\ pre.closed =>
            /\ calls = <<>>
            /\ Snapshot = pre

\* C18 witness: the process exits with two motors, the first one running,
\* and no close() before.
C18_Witness ==
  /\ last.op = "atexit"
  /\ ~pre.closed
  /\ Len(pre.motors) = 2
  /\ pre.motors[1].val.dc = 1
  /\ ~pre.motors[1].val.closed
  /\ Len(calls) = 2

\* C19: when ticker() or a dispatch runs while close() is under way (in
\* its sleep), no unit has its feedback step or a mutating operation
\* invoked after that unit was closed.
C19_NoCallAfterClose ==
  ( /\ closing.pc = "sleep"
    /\ \/ last.op = "ticker"
       \/ last.op \in MutatingOps /\ last.arg # NoneArg ) =>
    \A j \in 1..Len(calls) : ~calls[j].closed

\* The names of the mapping and of the units under them, in order.
MappingNames ==
  [i \in 1..Len(motors) |-> [key |-> motors[i].key, name |-> motors[i].val.name]]

\* C20: the mapping of names to motors changes only at construction and
\* at close(): no dispatch, stopMotor, ticker, odef or needservice call
\* adds, removes, renames or reorders a motor, and once close() has
\* emptied the mapping it stays empty.
C20_MappingFixed ==
  [][ /\ MappingNames' # MappingNames =>
           (pc = "new" \/ last'.op \in {"close", "atexit"})
      /\ closed => motors' = <<>> ]_vars

\* C20 witness: needservice has built a service for a set of two motors
\* while a close() of the set is asleep.
C20_Witness ==
  /\ last.op = "needservice"
  /\ sharedServices # <<>>
  /\ Len(motors) = 2
  /\ closing.pc = "sleep"

====
